---- MODULE Spec2Model ----
(***************************************************************************)
(* Surface-hopping transition engine of unixmd: SH.hop_prob, SH.hop_check, *)
(* SH.evaluate_hop of src/mqc/sh.py and of the cavity variant              *)
(* src/mqc_qed/sh.py, with the part of SH.run that sequences them.         *)
(*                                                                         *)
(* Floating-point values are modelled exactly.  A number is a record       *)
(* [p, q, D, d] standing for (p + q*sqrt(D)) / d with integers p, q, D, d. *)
(* d > 0 is a finite value; d = 0 is a non-finite IEEE value: p = 0 is     *)
(* NaN, p = 1 is +inf, p = -1 is -inf.  Energies are counted in units of   *)
(* misc.eps, so that a kinetic energy of 1/2 is "below eps but not zero".  *)
(***************************************************************************)
EXTENDS Integers, Sequences, FiniteSets, TLC

\* ------------------------------------------------------------ arithmetic

Abs(n) == IF n < 0 THEN -n ELSE n

Sgn(n) == IF n < 0 THEN -1 ELSE IF n > 0 THEN 1 ELSE 0

RECURSIVE Gcd(_, _)
Gcd(m, n) == IF n = 0 THEN m ELSE Gcd(n, m % n)

\* largest j <= k with j*j dividing n (n > 0)
SquarePart(n, k) ==
    IF k <= 1 THEN 1
    ELSE LET S == {j \in 1 .. k : n % (j * j) = 0}
         IN  CHOOSE j \in S : \A i \in S : i <= j

\* floor of the square root of n >= 0, searched upwards from k
ISqrt(n, k) == CHOOSE r \in k .. n : (r + 1) * (r + 1) > n

NaN == [p |-> 0, q |-> 0, D |-> 0, d |-> 0]

Inf(s) == [p |-> s, q |-> 0, D |-> 0, d |-> 0]

IsFinite(x) == x.d > 0

IsNaN(x) == x.d = 0 /\ x.p = 0

\* (p + q*sqrt(D)) / d with the common factor g of p, q, d removed and d > 0
Reduced(p, q, D, d, g) ==
    IF d < 0 THEN [p |-> (-p) \div g, q |-> (-q) \div g, D |-> D, d |-> (-d) \div g]
    ELSE [p |-> p \div g, q |-> q \div g, D |-> D, d |-> d \div g]

\* (p + q*sqrt(D)) / d for a square-free D, or q = 0
Lowest(p, q, D, d) ==
    IF q = 0 THEN Reduced(p, 0, 0, d, Gcd(Abs(p), Abs(d)))
    ELSE IF D = 1 THEN Reduced(p + q, 0, 0, d, Gcd(Abs(p + q), Abs(d)))
    ELSE Reduced(p, q, D, d, Gcd(Gcd(Abs(p), Abs(q)), Abs(d)))

\* the normal form of (p + q*sqrt(D)) / d, d # 0
Norm(p, q, D, d) ==
    IF q = 0 \/ D <= 0 THEN Lowest(p, 0, 0, d)
    ELSE CHOOSE z \in {Lowest(p, q * k, D \div (k * k), d) :
                          k \in {SquarePart(D, ISqrt(D, 0))}} : TRUE

Num(n) == [p |-> n, q |-> 0, D |-> 0, d |-> 1]

Rat(n, m) == Norm(n, 0, 0, m)

\* the sign of a number: -1, 0, 1 (a NaN has sign 0)
Sign(x) ==
    IF x.d = 0 THEN x.p
    ELSE IF x.q = 0 THEN Sgn(x.p)
    ELSE IF x.p >= 0 /\ x.q > 0 THEN 1
    ELSE IF x.p <= 0 /\ x.q < 0 THEN -1
    ELSE IF x.p * x.p > x.q * x.q * x.D THEN Sgn(x.p) ELSE Sgn(x.q)

Neg(x) == [p |-> -x.p, q |-> -x.q, D |-> x.D, d |-> x.d]

RadOf(x, y) == IF x.D >= y.D THEN x.D ELSE y.D

\* the two radicands can be added or multiplied in Q(sqrt(D))
SameField(x, y) == x.D = 0 \/ y.D = 0 \/ x.D = y.D

\* Each operation binds its operands once (a \in {x}) before it uses them.

AddV(x, y) ==
    IF IsNaN(x) \/ IsNaN(y) THEN NaN
    ELSE IF ~IsFinite(x) /\ ~IsFinite(y) THEN (IF x.p = y.p THEN x ELSE NaN)
    ELSE IF ~IsFinite(x) THEN x
    ELSE IF ~IsFinite(y) THEN y
    ELSE LET g == Gcd(x.d, y.d)
         IN  Norm(x.p * (y.d \div g) + y.p * (x.d \div g),
                  x.q * (y.d \div g) + y.q * (x.d \div g), RadOf(x, y),
                  x.d * (y.d \div g))

Add(x, y) == CHOOSE z \in {AddV(a, b) : a \in {x}, b \in {y}} : TRUE

Sub(x, y) == CHOOSE z \in {AddV(a, Neg(b)) : a \in {x}, b \in {y}} : TRUE

MulV(x, y) ==
    IF IsNaN(x) \/ IsNaN(y) THEN NaN
    ELSE IF ~IsFinite(x) \/ ~IsFinite(y)
         THEN (IF Sign(x) * Sign(y) = 0 THEN NaN ELSE Inf(Sign(x) * Sign(y)))
    ELSE IF x.p = 0 /\ y.p = 0 /\ x.q # 0 /\ y.q # 0 /\ x.D # y.D
         THEN Lowest(0, x.q * y.q * Gcd(x.D, y.D),
                     (x.D \div Gcd(x.D, y.D)) * (y.D \div Gcd(x.D, y.D)), x.d * y.d)
    ELSE Norm(x.p * y.p + x.q * y.q * RadOf(x, y), x.p * y.q + x.q * y.p,
              RadOf(x, y), x.d * y.d)

Mul(x, y) == CHOOSE z \in {MulV(a, b) : a \in {x}, b \in {y}} : TRUE

\* x / y for a rational y (every divisor of the engine is rational)
DivV(x, y) ==
    IF IsNaN(x) \/ IsNaN(y) THEN NaN
    ELSE IF ~IsFinite(y) THEN (IF IsFinite(x) THEN Num(0) ELSE NaN)
    ELSE IF ~IsFinite(x) THEN (IF y.p < 0 THEN Neg(x) ELSE x)
    ELSE IF y.p = 0 THEN (IF Sign(x) = 0 THEN NaN ELSE Inf(Sign(x)))
    ELSE Norm(x.p * y.d, x.q * y.d, x.D, x.d * y.p)

Div(x, y) == CHOOSE z \in {DivV(a, b) : a \in {x}, b \in {y}} : TRUE

\* np.sqrt of a rational: NaN below zero
SqrtV(x) ==
    IF IsNaN(x) THEN NaN
    ELSE IF ~IsFinite(x) THEN (IF x.p > 0 THEN x ELSE NaN)
    ELSE IF x.p < 0 THEN NaN
    ELSE IF x.p = 0 THEN Num(0)
    ELSE LET a == SquarePart(x.p, ISqrt(x.p, 0))
             b == SquarePart(x.d, ISqrt(x.d, 0))
         IN  Lowest(0, a, (x.p \div (a * a)) * (x.d \div (b * b)), b * (x.d \div (b * b)))

Sqrt(x) == CHOOSE z \in {SqrtV(a) : a \in {x}} : TRUE

\* comparisons: every comparison with a NaN is false
LtV(x, y) == ~IsNaN(x) /\ ~IsNaN(y) /\ x # y /\ Sign(AddV(x, Neg(y))) < 0

Lt(x, y) == \E a \in {x}, b \in {y} : LtV(a, b)

Gt(x, y) == \E a \in {x}, b \in {y} : LtV(b, a)

Le(x, y) == \E a \in {x}, b \in {y} : ~IsNaN(a) /\ ~IsNaN(b) /\ (a = b \/ LtV(a, b))

\* ------------------------------------------------------------ vectors

Zero == Num(0)

One == Num(1)

Two == Num(2)

Half == Rat(1, 2)

RECURSIVE SumTo(_, _)
\* f[1] + ... + f[n]
SumTo(f, n) == IF n = 0 THEN Zero ELSE Add(SumTo(f, n - 1), f[n])

\* np.sum over the atoms of a per-atom array
NpSum(f) == SumTo(f, Len(f))

\* ------------------------------------------------------------ bounds and domains

\* electronic (or polaritonic) states: mol.nst / pol.pst
States == 0 .. 2

\* QM atoms, one Cartesian component each: mol.nat_qm
Atoms == 1 .. 2

\* random.random() is drawn from {0, 1/RandDen, ..., (RandDen-1)/RandDen}
RandDen == 4

\* adjacent state energies differ by 0 .. MaxGap
MaxGap == 1

\* misc.eps, the unit of energy of the model
Eps == 1

\* the nuclear time step self.dt, the unit of time of the model
Dt == 1

RandSet == {Rat(k, RandDen) : k \in 0 .. (RandDen - 1)}

Modes == {"energy", "velocity", "momentum", "augment"}

Rejects == {"keep", "reverse"}

Variants == {"mqc", "qed"}

\* the velocity-rescaling inputs the backend and the integrator hand to a step
MassSet == {<<1, 1>>, <<1, 2>>}

VelSet == {<<v1, v2>> : v1 \in {-1, 0, 1}, v2 \in {0, 1}}

NacSet == {<<d1, d2>> : d1 \in {0, 1}, d2 \in {0, 1}}

EnergySet == {[i \in States |-> IF i = 0 THEN 0 ELSE IF i = 1 THEN g1 ELSE g1 + g2] :
                 g1 \in 0 .. MaxGap, g2 \in 0 .. MaxGap}

KinWide == [vel : VelSet, d : NacSet, energy : EnergySet]

KinNarrow == [vel : {<<1, 1>>}, d : {<<1, 0>>}, energy : {[i \in States |-> i]}]

\* the coupling tensor nac[i][j]: antisymmetric under index swap
NacOf(d) == [i \in States |-> [j \in States |->
               [k \in Atoms |-> IF i < j THEN d[k] ELSE IF i > j THEN -d[k] ELSE 0]]]

\* the density matrix of the coefficient vector c: rho[i][j] = conj(c[i]) * c[j] / |c|^2
Norm2(c) == LET f == [k \in 1 .. Cardinality(States) |->
                        Num(c[k - 1].re * c[k - 1].re + c[k - 1].im * c[k - 1].im)]
            IN  NpSum(f)

RhoOf(c) == [i \in States |-> [j \in States |->
               [re |-> Div(Num(c[i].re * c[j].re + c[i].im * c[j].im), Norm2(c)),
                im |-> Div(Num(c[i].re * c[j].im - c[i].im * c[j].re), Norm2(c))]]]

\* the coefficients coef_a[i] = c[i] / |c| of the normalized state
CoefOf(c) == [i \in States |->
                [re |-> Div(Mul(Num(c[i].re), Sqrt(Norm2(c))), Norm2(c)),
                 im |-> Div(Mul(Num(c[i].im), Sqrt(Norm2(c))), Norm2(c))]]

\* the coupling matrix elements nacme[i][j] = s[i][j] / 4, antisymmetric
NacmeOf(u) == [i \in States |-> [j \in States |->
                 IF i < j THEN Rat(u[<<i, j>>], 4)
                 ELSE IF i > j THEN Rat(-u[<<j, i>>], 4) ELSE Zero]]

UpperPairs == {<<i, j>> \in States \X States : i < j}


\* symmetric diabatic Hamiltonian qed.ham_d with off-diagonal elements h / 4
HamOf(h) == [i \in States |-> [j \in States |->
               IF i < j THEN Rat(h[<<i, j>>], 4)
               ELSE IF i > j THEN Rat(h[<<j, i>>], 4) ELSE Zero]]

\* the unitary qed.unitary: the identity, or the exchange of states 0 and 1
Identity == [i \in States |-> [j \in States |-> IF i = j THEN One ELSE Zero]]

Swap01 == [i \in States |-> [j \in States |->
             IF (i = j /\ i > 1) \/ (i # j /\ i <= 1 /\ j <= 1) THEN One ELSE Zero]]

Re(n) == [re |-> n, im |-> 0]

Im(n) == [re |-> 0, im |-> n]

\* the electronic data of a step: coefficients c, coupling signs u, Hamiltonian
\* off-diagonals h and the unitary U
ProbNarrow == [c : {[i \in States |-> IF i = 1 THEN Re(-1) ELSE Re(1)]},
               u : {[pr \in UpperPairs |-> 1]},
               h : {[pr \in UpperPairs |-> 0]},
               U : {Identity}]

ProbWide == [c : [States -> {Re(1), Re(-2), Im(1)}],
             u : [UpperPairs -> {-1, 0, 1}],
             h : {[pr \in UpperPairs |-> 0], [pr \in UpperPairs |-> 1]},
             U : {Identity, Swap01}]

\* ------------------------------------------------------------ state

VARIABLES
    variant,        \* "mqc": src/mqc/sh.py, "qed": src/mqc_qed/sh.py
    vel_rescale,    \* self.vel_rescale / self.hop_rescale
    vel_reject,     \* self.vel_reject / self.hop_reject
    mass,           \* mol.mass / pol.mass
    pc,             \* the next call of SH.run
    rstate,         \* self.rstate
    rstate_old,     \* self.rstate_old
    rand,           \* self.rand
    prob,           \* self.prob
    acc_prob,       \* self.acc_prob
    l_hop,          \* self.l_hop
    l_reject,       \* self.l_reject
    event,          \* self.event["HOP"]
    st_list,        \* bo_list (mqc) / pol_list (qed) of SH.run
    vel,            \* mol.vel / pol.vel
    ekin_qm,        \* mol.ekin_qm / pol.ekin_qm
    nac,            \* mol.nac / pol.pnac
    energy,         \* states[i].energy / pol_states[i].energy
    rho,            \* mol.rho / pol.rho_a
    nacme,          \* mol.nacme / pol.pnacme
    ham_d,          \* qed.ham_d
    unitary,        \* qed.unitary
    l_trivial,      \* qed.l_trivial
    trivial_state,  \* qed.trivial_state
    ctor,           \* the arguments given to SH.__init__ and mol.l_nacme / pol.l_pnacme
    dec_correction, \* self.dec_correction (qed), "none" for None
    elec_object,    \* self.elec_object (qed)
    coef,           \* pol_states[i].coef_a
    edc_parameter,  \* self.edc_parameter (qed)
    out_freq,       \* self.out_freq
    istep,          \* the step SH.run is in: -1 for the step before the MD loop
    calls           \* the calls SH.run has made in the step, in their order

cfg == <<variant, vel_rescale, vel_reject, mass, ctor, dec_correction, elec_object,
        edc_parameter, out_freq>>

eng == <<rstate, rstate_old, rand, prob, acc_prob, l_hop, l_reject, event, st_list>>

kin == <<vel, ekin_qm>>

data == <<nac, energy, rho, nacme, ham_d, unitary, l_trivial, trivial_state, coef>>

run == <<istep, calls>>

vars == <<cfg, pc, eng, kin, data, run>>

\* edc_parameter = 0.1 of SH.__init__
EdcDefault == Rat(1, 10)

\* out_freq = 1 of SH.__init__
OutFreqDefault == 1

\* an entry of calls: the routine and, for a backend request, the state asked for
Call(op, arg) == [op |-> op, arg |-> arg]

\* faulty variant: the random number is drawn by hop_prob
engine_calls_early_draw(routine) ==
    IF routine = "hop_prob"
    THEN <<Call("hop_prob", -1), Call("random.random", -1)>>
    ELSE <<Call(routine, -1)>>

\* the calls of an engine routine that the run records: the routine itself and,
\* in hop_check, self.rand = random.random() before the loop over the states
engine_calls(routine) ==
    IF routine = "hop_check"
    THEN <<Call("hop_check", -1), Call("random.random", -1)>>
    ELSE <<Call(routine, -1)>>

\* mol.update_kinetic(): the kinetic energy of the QM atoms, sum(mass * vel^2) / 2
update_kinetic(v, m) ==
    Mul(Half, NpSum([k \in Atoms |-> Mul(Num(m[k]), Mul(v[k], v[k]))]))

NumVec(v) == [k \in Atoms |-> Num(v[k])]

\* the electronic-structure backend and the integrator hand a step its data
Backend(k, e) ==
    /\ vel = NumVec(k.vel)
    /\ ekin_qm = update_kinetic(NumVec(k.vel), mass)
    /\ nac = NacOf(k.d)
    /\ energy = k.energy
    /\ rho = RhoOf(e.c)
    /\ coef = CoefOf(e.c)
    /\ nacme = NacmeOf(e.u)
    /\ ham_d = (IF variant = "qed" THEN HamOf(e.h) ELSE HamOf([pr \in UpperPairs |-> 0]))
    /\ unitary = (IF variant = "qed" THEN e.U ELSE Identity)

\* SH.__init__ and the head of SH.run: the engine before its first step
Constructed(istate) ==
    /\ rstate = istate
    /\ rstate_old = istate
    /\ rand = Zero
    /\ prob = [i \in States |-> Zero]
    /\ acc_prob = [i \in 0 .. Cardinality(States) |-> Zero]
    /\ l_hop = FALSE
    /\ l_reject = FALSE
    /\ event = <<>>
    /\ st_list = <<istate>>
    /\ istep = -1
    /\ calls = <<>>
    /\ pc = "hop_prob"

InitWith(CfgSet, KinSet, ProbSet, Trivials) ==
    /\ \E c \in CfgSet :
          /\ variant = c.variant
          /\ vel_rescale = c.vel_rescale
          /\ vel_reject = c.vel_reject
          /\ mass = c.mass
          /\ ctor = [vel_rescale |-> c.vel_rescale, vel_reject |-> c.vel_reject,
                     dec_correction |-> "none", l_nacme |-> FALSE]
    /\ dec_correction = "none"
    /\ elec_object = "coefficient"
    /\ edc_parameter = EdcDefault
    /\ out_freq = OutFreqDefault
    /\ \E istate \in States : Constructed(istate)
    /\ \E k \in KinSet, e \in ProbSet : Backend(k, e)
    /\ \E t \in Trivials :
          /\ l_trivial = (variant = "qed" /\ t.l_trivial)
          /\ trivial_state = (IF variant = "qed" THEN t.trivial_state ELSE 0)

\* coefficient vectors with unpopulated states, the null vector left out
ProbPop == [c : [States -> {Re(0), Re(1), Re(-2)}] \ {[i \in States |-> Re(0)]},
            u : [UpperPairs -> {-1, 1}],
            h : {[pr \in UpperPairs |-> 0]},
            U : {Identity}]

\* the arguments of SH.__init__ that the constructor accepts
CfgWide == [variant : Variants, vel_rescale : Modes, vel_reject : Rejects, mass : MassSet]

CfgNarrow == [variant : Variants, vel_rescale : {"momentum"}, vel_reject : {"keep"},
              mass : {<<1, 1>>}]

NoTrivial == {[l_trivial |-> FALSE, trivial_state |-> 0]}

\* the cavity variant on every velocity-rescaling input
CfgCavity == [variant : {"qed"}, vel_rescale : Modes, vel_reject : Rejects, mass : MassSet]

\* a trivial crossing flagged by the backend, with its target state
Trivial == [l_trivial : {TRUE}, trivial_state : States]


\* ------------------------------------------------------------ __init__

\* a field the constructor has not assigned yet
Unset == "unset"

\* strings given as vel_rescale / hop_rescale
CtorModes == Modes \cup {"Energy", "AUGMENT", "rescale"}

\* strings given as vel_reject / hop_reject
CtorRejects == Rejects \cup {"Keep", "REVERSE", "stop"}

\* values given as dec_correction, "none" for None
CtorDecs == {"none", "idc", "IDC", "edc", "sdc"}

\* str.lower() on the strings of the model
lower(s) ==
    CASE s = "Energy" -> "energy"
      [] s = "AUGMENT" -> "augment"
      [] s = "Keep" -> "keep"
      [] s = "REVERSE" -> "reverse"
      [] s = "IDC" -> "idc"
      [] OTHER -> s

\* the value the constructor stores: the cavity variant lowers the string
stored(s) == IF variant = "qed" /\ s # "none" THEN lower(s) ELSE s

\* faulty variant: the check of l_nacme / l_pnacme is missing
init_error_no_nacme(rescale, reject, dec, l_nacme) ==
    \/ rescale \notin Modes
    \/ reject \notin Rejects
    \/ dec \notin {"none", "idc", "edc"}

\* the constructor raises ValueError on the stored values
init_error(rescale, reject, dec, l_nacme) ==
    \/ rescale \notin Modes
    \/ reject \notin Rejects
    \/ dec \notin {"none", "idc", "edc"}
    \/ l_nacme /\ (rescale \in {"velocity", "momentum", "augment"} \/ reject = "reverse")

\* SH.__init__ from the assignment of vel_rescale on
construct ==
    /\ pc = "construct"
    /\ \E m \in {stored(ctor.vel_rescale)}, r \in {stored(ctor.vel_reject)},
          dc \in {stored(ctor.dec_correction)} :
          /\ vel_rescale' = m
          /\ vel_reject' = (IF m \in Modes THEN r ELSE vel_reject)
          /\ dec_correction' = (IF m \in Modes /\ r \in Rejects THEN dc ELSE dec_correction)
          /\ pc' = (IF init_error(m, r, dc, ctor.l_nacme) THEN "raised" ELSE "hop_prob")
    /\ event' = <<>>
    /\ UNCHANGED <<variant, mass, ctor, elec_object, edc_parameter, out_freq, kin, data,
                   run>>
    /\ UNCHANGED <<rstate, rstate_old, rand, prob, acc_prob, l_hop, l_reject, st_list>>

\* ------------------------------------------------------------ hop_prob

NSt == Cardinality(States)

\* mqc: - 2 * rho.real[ist, rstate] * nacme[ist, rstate] * dt / rho.real[rstate, rstate]
raw_prob_mqc(ist) ==
    Div(Mul(Mul(Mul(Num(-2), rho[ist][rstate].re), nacme[ist][rstate]), Num(Dt)),
        rho[rstate][rstate].re)

\* element [i][j] of the product of two matrices
MatMul(A, B) == [i \in States |-> [j \in States |->
                   NpSum([k \in 1 .. NSt |-> Mul(A[i][k - 1], B[k - 1][j])])]]

Transpose(A) == [i \in States |-> [j \in States |-> A[j][i]]]

\* tmp_ham = U^+ * H * U
tmp_ham == MatMul(Transpose(unitary), MatMul(ham_d, unitary))

\* qed: - 2 * (rho_a.imag[rstate, ist] * tmp_ham[rstate, ist]
\*             - rho_a.real[rstate, ist] * pnacme[rstate, ist]) * dt / rho_a.real[rstate, rstate]
raw_prob_qed(ist) ==
    Div(Mul(Mul(Num(-2), Sub(Mul(rho[rstate][ist].im, tmp_ham[rstate][ist]),
                             Mul(rho[rstate][ist].re, nacme[rstate][ist]))), Num(Dt)),
        rho[rstate][rstate].re)

\* faulty variant: a negative raw value is kept
Clamp_none(x) == x

\* if (self.prob[ist] < 0.): self.prob[ist] = 0.
Clamp(x) == IF Lt(x, Zero) THEN Zero ELSE x

\* the probability of each candidate before the renormalization
prob_raw(ist) ==
    IF ist = rstate THEN Zero
    ELSE IF variant = "mqc" THEN Clamp(raw_prob_mqc(ist))
    ELSE IF ~l_trivial THEN Clamp(raw_prob_qed(ist))
    ELSE IF ist = trivial_state THEN One ELSE Zero

RECURSIVE Accum(_, _, _)
\* accum after the first n turns of the loop over ist
Accum(p, r, n) ==
    IF n = 0 THEN Zero
    ELSE IF n - 1 # r THEN Add(Accum(p, r, n - 1), p[n - 1])
    ELSE Accum(p, r, n - 1)

\* faulty variant: the sum is never brought back to 1
Renormalize_never(x, psum) == x

\* if (psum > 1.): self.prob /= psum; self.acc_prob /= psum
Renormalize(x, psum) == IF Gt(psum, One) THEN Div(x, psum) ELSE x

hop_prob ==
    /\ pc = "hop_prob"
    /\ LET p    == [ist \in States |-> prob_raw(ist)]
           acc  == [n \in 0 .. NSt |-> Accum(p, rstate, n)]
           psum == acc[NSt]
       IN  /\ prob' = [ist \in States |-> Renormalize(p[ist], psum)]
           /\ acc_prob' = [n \in 0 .. NSt |-> Renormalize(acc[n], psum)]
    /\ rstate_old' = rstate
    /\ l_hop' = FALSE
    /\ pc' = "hop_check"
    /\ calls' = calls \o engine_calls("hop_prob")
    /\ UNCHANGED <<cfg, kin, data, rstate, rand, l_reject, event, st_list, istep>>

\* ------------------------------------------------------------ hop_check

\* faulty variant: the interval is open on the right (< for <=)
InInterval_open(r, ist) == Gt(r, acc_prob[ist]) /\ Lt(r, acc_prob[ist + 1])

\* faulty variant: the interval is closed on the left (>= for >)
InInterval_closed(r, ist) == Le(acc_prob[ist], r) /\ Le(r, acc_prob[ist + 1])

\* self.rand > self.acc_prob[ist] and self.rand <= self.acc_prob[ist + 1]
InInterval(r, ist) == Gt(r, acc_prob[ist]) /\ Le(r, acc_prob[ist + 1])

RECURSIVE Scan(_, _, _, _)
\* the loop over ist from ist on, with cur the running state and hop the flag so far
Scan(r, ist, cur, hop) ==
    IF ist = NSt THEN [rstate |-> cur, l_hop |-> hop]
    ELSE IF ist = cur THEN Scan(r, ist + 1, cur, hop)
    ELSE IF InInterval(r, ist) THEN Scan(r, ist + 1, ist, TRUE)
    ELSE Scan(r, ist + 1, cur, hop)

hop_check ==
    /\ pc = "hop_check"
    /\ \E r \in RandSet :
          LET res == Scan(r, 0, rstate, FALSE)
          IN  /\ rand' = r
              /\ rstate' = res.rstate
              /\ l_hop' = (l_hop \/ res.l_hop)
              /\ st_list' = IF res.l_hop THEN [st_list EXCEPT ![1] = res.rstate]
                            ELSE st_list
    /\ pc' = "evaluate_hop"
    /\ calls' = calls \o engine_calls("hop_check")
    /\ UNCHANGED <<cfg, kin, data, rstate_old, prob, acc_prob, l_reject, event, istep>>


\* ------------------------------------------------------------ evaluate_hop

\* states[rstate].energy - states[rstate_old].energy
pot_diff_of(new, old) == Num(energy[new] - energy[old])

\* a of the quadratic equation: sum(mass * d^2), or sum(1 / mass * d^2)
quad_a(mode, d) ==
    IF mode = "velocity"
    THEN NpSum([k \in Atoms |-> Mul(Num(mass[k]), Num(d[k] * d[k]))])
    ELSE IF mode \in {"momentum", "augment"}
    THEN NpSum([k \in Atoms |-> Mul(Div(One, Num(mass[k])), Num(d[k] * d[k]))])
    ELSE One

\* b of the quadratic equation: 2 * sum(mass * d * vel), or 2 * sum(d * vel)
quad_b(mode, d, v) ==
    IF mode = "velocity"
    THEN Mul(Two, NpSum([k \in Atoms |-> Mul(Num(mass[k]), Mul(Num(d[k]), v[k]))]))
    ELSE IF mode \in {"momentum", "augment"}
    THEN Mul(Two, NpSum([k \in Atoms |-> Mul(Num(d[k]), v[k])]))
    ELSE One

\* det = b ** 2. - 4. * a * c with c = 2. * pot_diff
quad_det(mode, a, b, pd) ==
    IF mode = "energy" THEN One
    ELSE Sub(Mul(b, b), Mul(Mul(Num(4), a), Mul(Two, pd)))

\* faulty variant: the rule for a kinetic energy below pot_diff is missing
reject_of_no_forbidden(mode, ekin, pd, det) ==
    LET r1 == mode = "energy" /\ Lt(ekin, Num(Eps))
        r3 == IF Lt(det, Zero) THEN TRUE ELSE r1
    IN  IF mode = "augment" /\ Gt(ekin, pd) THEN FALSE ELSE r3

\* faulty variant: augment mode is frustrated by det < 0 like the other modes
reject_of_no_augment(mode, ekin, pd, det) ==
    (mode = "energy" /\ Lt(ekin, Num(Eps))) \/ Lt(ekin, pd) \/ Lt(det, Zero)

\* faulty variant: the rule for det < 0 is missing
reject_of_no_det(mode, ekin, pd, det) ==
    (mode = "energy" /\ Lt(ekin, Num(Eps))) \/ Lt(ekin, pd)

\* faulty variant: the rule for a kinetic energy below eps in energy mode is missing
reject_of_no_eps(mode, ekin, pd, det) ==
    IF mode = "augment" /\ Gt(ekin, pd) THEN FALSE
    ELSE Lt(ekin, pd) \/ Lt(det, Zero)

\* the four rules that set self.l_reject, in the order of the code
reject_of(mode, ekin, pd, det) ==
    LET r0 == FALSE
        r1 == IF mode = "energy" /\ Lt(ekin, Num(Eps)) THEN TRUE ELSE r0
        r2 == IF Lt(ekin, pd) THEN TRUE ELSE r1
        r3 == IF Lt(det, Zero) THEN TRUE ELSE r2
    IN  IF mode = "augment" /\ Gt(ekin, pd) THEN FALSE ELSE r3

\* faulty variant: x = b / a
reject_x_unsigned(a, b) == Div(b, a)

\* x = - b / a of a frustrated hop
reject_x(a, b) == Div(Neg(b), a)

\* x of an accepted hop
accept_x(mode, pd, ekin, a, b, det) ==
    IF mode = "energy" \/ (Lt(det, Zero) /\ mode = "augment")
    THEN Sqrt(Sub(One, Div(pd, ekin)))
    ELSE IF Lt(b, Zero)
    THEN Div(Mul(Half, Sub(Neg(b), Sqrt(det))), a)
    ELSE Div(Mul(Half, Add(Neg(b), Sqrt(det))), a)

Entry(msg, a, b) == [msg |-> msg, a |-> a, b |-> b]

\* faulty variant: the two records of a frustrated hop are alternatives (elif)
reject_events_single(reject, ekin, pd, new, old) ==
    IF Lt(ekin, pd) THEN <<Entry("Reject hopping: smaller kinetic energy", new, old)>>
    ELSE IF reject = "keep" THEN <<Entry("Reject hopping: velocity is not changed", -1, -1)>>
    ELSE <<Entry("Reject hopping: velocity is reversed", -1, -1)>>

\* the entries a frustrated hop appends to event["HOP"]
reject_events(reject, ekin, pd, new, old) ==
    (IF Lt(ekin, pd) THEN <<Entry("Reject hopping: smaller kinetic energy", new, old)>>
     ELSE <<>>)
    \o (IF reject = "keep" THEN <<Entry("Reject hopping: velocity is not changed", -1, -1)>>
        ELSE IF reject = "reverse"
        THEN <<Entry("Reject hopping: velocity is reversed", -1, -1)>>
        ELSE <<>>)

\* the entry an accepted hop appends before x is computed
accept_events(mode, det) ==
    IF (mode = "energy" \/ (Lt(det, Zero) /\ mode = "augment")) /\ Lt(det, Zero)
    THEN <<Entry("Accept hopping: velocity is simply rescaled", -1, -1)>>
    ELSE <<>>

\* vel *= x
Scaled(v, x) == [k \in Atoms |-> Mul(v[k], x)]

\* vel += x * d
Shifted(v, x, d) == [k \in Atoms |-> Add(v[k], Mul(x, Num(d[k])))]

\* vel += x * d / mass
ShiftedByMass(v, x, d) ==
    [k \in Atoms |-> Add(v[k], Div(Mul(x, Num(d[k])), Num(mass[k])))]

\* faulty variant: the velocities of a frustrated hop are rescaled under "keep" too
rescale_ignoring_keep(mode, reject, rej, x, det, ekin, pd, v, d) ==
    IF mode = "energy" THEN Scaled(v, x)
    ELSE IF mode = "velocity" THEN Shifted(v, x, d)
    ELSE IF mode = "momentum" THEN ShiftedByMass(v, x, d)
    ELSE IF Gt(det, Zero) \/ Lt(ekin, pd) THEN ShiftedByMass(v, x, d)
    ELSE Scaled(v, x)

\* "Rescale velocities for QM atoms": d is nac[rstate_old, rstate] as read there
rescale(mode, reject, rej, x, det, ekin, pd, v, d) ==
    IF reject = "keep" /\ rej THEN v
    ELSE IF mode = "energy" THEN Scaled(v, x)
    ELSE IF mode = "velocity" THEN Shifted(v, x, d)
    ELSE IF mode = "momentum" THEN ShiftedByMass(v, x, d)
    ELSE IF Gt(det, Zero) \/ Lt(ekin, pd) THEN ShiftedByMass(v, x, d)
    ELSE Scaled(v, x)

\* faulty variant: a frustrated hop does not recover the old running state
state_after_keep_new(rej, new, old) == new

\* the running state when the velocities are rescaled: a frustrated hop has
\* already recovered the old running state
state_after(rej, new, old) == IF rej THEN old ELSE new

\* faulty variant: a frustrated hop leaves the state list on the rejected state
list_after_stale(rej, rs, lst) == lst

\* bo_list[0] = self.rstate (pol_list[0] in the cavity variant) after a
\* frustrated hop has recovered the old running state
list_after(rej, rs, lst) == IF rej THEN [lst EXCEPT ![1] = rs] ELSE lst

\* faulty variant: the hop record is appended without comparing the two states
hop_events_always(new, old) ==
    IF ~l_trivial THEN <<Entry("Accept hopping: hop", old, new)>>
    ELSE <<Entry("Trivial crossing hopping: hop", old, new)>>

\* faulty variant: a trivial crossing is recorded as an ordinary hop
hop_events_ordinary(new, old) ==
    IF new # old THEN <<Entry("Accept hopping: hop", old, new)>> ELSE <<>>

\* "Record hopping event"
hop_events(new, old) ==
    IF new # old
    THEN (IF ~l_trivial THEN <<Entry("Accept hopping: hop", old, new)>>
          ELSE <<Entry("Trivial crossing hopping: hop", old, new)>>)
    ELSE <<>>

evaluate_hop ==
    /\ pc = "evaluate_hop"
    /\ IF l_hop /\ ~l_trivial
       THEN \E pd \in {pot_diff_of(rstate, rstate_old)} :
            \E a \in {quad_a(vel_rescale, nac[rstate_old][rstate])} :
            \E b \in {quad_b(vel_rescale, nac[rstate_old][rstate], vel)} :
            \E det \in {quad_det(vel_rescale, a, b, pd)} :
            \E rej \in {reject_of(vel_rescale, ekin_qm, pd, det)} :
            \E x \in {IF rej THEN reject_x(a, b)
                      ELSE accept_x(vel_rescale, pd, ekin_qm, a, b, det)} :
            \E rs \in {state_after(rej, rstate, rstate_old)} :
            \E v \in {rescale(vel_rescale, vel_reject, rej, x, det, ekin_qm, pd, vel,
                              nac[rstate_old][rs])} :
                /\ l_reject' = rej
                /\ l_hop' = ~rej
                /\ rstate' = rs
                /\ st_list' = list_after(rej, rs, st_list)
                /\ vel' = v
                /\ ekin_qm' = update_kinetic(v, mass)
                /\ event' = event
                            \o (IF rej
                                THEN reject_events(vel_reject, ekin_qm, pd, rstate, rstate_old)
                                ELSE accept_events(vel_rescale, det))
                            \o hop_events(rs, rstate_old)
       ELSE /\ event' = event \o hop_events(rstate, rstate_old)
            /\ UNCHANGED <<kin, rstate, l_hop, l_reject, st_list>>
    /\ pc' = "done"
    /\ calls' = calls \o engine_calls("evaluate_hop")
    /\ UNCHANGED <<cfg, data, rstate_old, rand, prob, acc_prob, istep>>

\* ------------------------------------------------------------ decoherence

\* faulty variant: only the population of the running state is set
idc_rho_diagonal(r) ==
    [i \in States |-> [j \in States |->
       IF i = r /\ j = r THEN [re |-> One, im |-> Zero] ELSE rho[i][j]]]

\* correct_dec_idc: rho_a = zeros, rho_a[rstate, rstate] = 1. + 0.j
idc_rho(r) ==
    [i \in States |-> [j \in States |->
       [re |-> (IF i = r /\ j = r THEN One ELSE Zero), im |-> Zero]]]

\* correct_dec_idc: every coef_a = 0. + 0.j, then coef_a of rstate = 1. + 0.j
idc_coef(r) == [i \in States |-> [re |-> (IF i = r THEN One ELSE Zero), im |-> Zero]]

\* np.exp on the arguments of exp_tau, which are never above zero. The rational
\* function 1 / (1 - y) stands for exp(y): like exp it is 1 at 0, falls strictly
\* with y and tends to 0 at -inf, so every factor is in (0, 1] as in the source.
np_exp(y) ==
    IF IsNaN(y) THEN NaN
    ELSE IF ~IsFinite(y) THEN (IF y.p < 0 THEN Zero ELSE y)
    ELSE IF Lt(Zero, y) THEN Add(One, y)
    ELSE Div(One, Sub(One, y))

\* exp_tau[ist]: 1 for rstate, exp(- dt / ((1 + C / ekin_qm) / |E_ist - E_rstate|))
exp_tau(ist, r) ==
    IF ist = r THEN One
    ELSE np_exp(Neg(Div(Num(Dt),
                        Div(Add(One, Div(edc_parameter, ekin_qm)),
                            Num(Abs(energy[ist] - energy[r]))))))

\* a complex number times a real one
CScale(z, f) == [re |-> Mul(z.re, f), im |-> Mul(z.im, f)]

\* z.conjugate() * w
ConjMul(z, w) ==
    [re |-> Add(Mul(z.re, w.re), Mul(z.im, w.im)),
     im |-> Sub(Mul(z.re, w.im), Mul(z.im, w.re))]

\* correct_dec_edc: coef_a *= exp_tau for every state but rstate
edc_decayed(r) == [i \in States |-> IF i # r THEN CScale(coef[i], exp_tau(i, r)) ELSE coef[i]]

\* correct_dec_edc: rho_update = 1. - sum of |coef_a|^2 over the decayed states
rho_update(cd, r) ==
    Sub(One, NpSum([k \in 1 .. NSt |->
                      IF k - 1 # r THEN ConjMul(cd[k - 1], cd[k - 1]).re ELSE Zero]))

\* faulty variant: the coefficient of rstate is left as it is
edc_coef_no_renormalization(r) == edc_decayed(r)

\* correct_dec_edc: the decayed coefficients, with that of rstate multiplied by
\* np.sqrt(rho_update / rho_a[rstate, rstate])
edc_coef(r) ==
    LET cd == edc_decayed(r)
        f  == Sqrt(Div(rho_update(cd, r), rho[r][r].re))
    IN  [i \in States |-> IF i = r THEN CScale(cd[i], f) ELSE cd[i]]

\* correct_dec_edc: rho_a[ist, jst] = coef_a[ist].conjugate() * coef_a[jst]
edc_rho(c) == [i \in States |-> [j \in States |-> ConjMul(c[i], c[j])]]

\* faulty variant: the instantaneous correction runs after accepted hops only
idc_due_accepted_only == l_hop

\* if (self.l_hop or self.l_reject) of the scheme "idc"
idc_due == l_hop \/ l_reject

\* faulty variant: the energy-based correction runs at every kinetic energy
edc_due_always == TRUE

\* if (self.pol.ekin_qm > eps) of the scheme "edc"
edc_due == Gt(ekin_qm, Num(Eps))

\* faulty variant: the basis transform after the correction is missing
corrector_calls_no_transform(op) == <<Call(op, -1)>>

\* a correction and the qed.transform(self.pol, mode="a2d") that follows it
corrector_calls(op) == <<Call(op, -1), Call("qed.transform(a2d)", -1)>>

\* the decoherence block of SH.run after evaluate_hop
decoherence ==
    /\ pc = "done"
    /\ variant = "qed"
    /\ dec_correction \in {"idc", "edc"}
    /\ IF dec_correction = "idc"
       THEN IF idc_due
            THEN /\ rho' = idc_rho(rstate)
                 /\ coef' = (IF elec_object = "coefficient" THEN idc_coef(rstate) ELSE coef)
                 /\ calls' = calls \o corrector_calls("correct_dec_idc")
            ELSE UNCHANGED <<rho, coef, calls>>
       ELSE IF edc_due
            THEN /\ IF elec_object = "coefficient"
                    THEN \E c \in {edc_coef(rstate)} : coef' = c /\ rho' = edc_rho(c)
                    ELSE UNCHANGED <<rho, coef>>
                 /\ calls' = calls \o corrector_calls("correct_dec_edc")
            ELSE UNCHANGED <<rho, coef, calls>>
    /\ pc' = "corrected"
    /\ UNCHANGED <<cfg, eng, kin, istep>>
    /\ UNCHANGED <<nac, energy, nacme, ham_d, unitary, l_trivial, trivial_state>>

\* ------------------------------------------------------------ the rest of a step

\* faulty variant: the forces are asked for after every hop decision
force_only_due_on_reject(re_calc) == l_hop \/ l_reject

\* if (self.l_hop) of the cavity variant and of BOMD, if (qm.re_calc and
\* self.l_hop) of mqc
force_only_due(re_calc) == IF variant \in {"qed", "bomd"} THEN l_hop ELSE re_calc /\ l_hop

\* the step after the decoherence block: get_data(..., calc_force_only=True)
\* for the states of the state list; thermostat, energies and output follow
force_only ==
    /\ \/ pc = "corrected"
       \/ pc = "done" /\ ~(variant = "qed" /\ dec_correction \in {"idc", "edc"})
    /\ \E re_calc \in BOOLEAN :
          calls' = (IF force_only_due(re_calc)
                    THEN Append(calls, Call("get_data(calc_force_only=True)", st_list[1]))
                    ELSE calls)
    /\ pc' = "end"
    /\ UNCHANGED <<cfg, eng, kin, data, istep>>

\* self.nsteps: the MD loop runs the steps 0 .. NSteps - 1 after the step -1
NSteps == 2

\* the kinematics and the electronic state that the head of the next step of
\* the MD loop computes
KinRun == KinNarrow

ProbRun == ProbNarrow

\* faulty variant: a step of the MD loop is printed only on the output frequency
print_due_on_frequency_only == (istep + 1) % out_freq = 0

\* self.print_step(...) is unconditional in the step -1; in the MD loop it is
\* under if ((istep + 1) % self.out_freq == 0 or len(self.event["HOP"]) > 0)
print_due == istep = -1 \/ (istep + 1) % out_freq = 0 \/ Len(event) > 0

\* the end of a step: update_energy, write_md_output and print_step, which
\* prints the entries of event["HOP"] and ends with self.event["HOP"] = []
output ==
    /\ pc = "end"
    /\ IF print_due
       THEN /\ calls' = Append(calls, Call("print_step", istep))
            /\ event' = <<>>
       ELSE UNCHANGED <<calls, event>>
    /\ pc' = "printed"
    /\ UNCHANGED <<cfg, kin, data, istep>>
    /\ UNCHANGED <<rstate, rstate_old, rand, prob, acc_prob, l_hop, l_reject, st_list>>

\* the head of the next step of the MD loop (integrator, backend, el_run)
\* hands the engine its new data
next_step ==
    /\ pc = "printed"
    /\ istep < NSteps - 1
    /\ istep' = istep + 1
    /\ calls' = <<>>
    /\ \E k \in KinRun, e \in ProbRun :
          /\ vel' = NumVec(k.vel)
          /\ ekin_qm' = update_kinetic(NumVec(k.vel), mass)
          /\ nac' = NacOf(k.d)
          /\ energy' = k.energy
          /\ rho' = RhoOf(e.c)
          /\ coef' = CoefOf(e.c)
          /\ nacme' = NacmeOf(e.u)
          /\ ham_d' = (IF variant = "qed" THEN HamOf(e.h) ELSE ham_d)
          /\ unitary' = (IF variant = "qed" THEN e.U ELSE unitary)
    /\ \E t \in NoTrivial \cup Trivial :
          /\ l_trivial' = (variant = "qed" /\ t.l_trivial)
          /\ trivial_state' = (IF variant = "qed" THEN t.trivial_state ELSE 0)
    /\ pc' = "hop_prob"
    /\ UNCHANGED <<cfg, rstate, rstate_old, rand, prob, acc_prob, l_hop, l_reject, event,
                   st_list>>

\* ------------------------------------------------------------ BOMD

\* BOMD.trivial_hop: "Record hopping event"
trivial_events(new, old) ==
    IF new # old THEN <<Entry("Trivial crossing hopping: hop", old, new)>> ELSE <<>>

\* BOMD.trivial_hop(qed, pol_list)
trivial_hop ==
    /\ pc = "trivial_hop"
    /\ variant = "bomd"
    /\ rstate_old' = rstate
    /\ IF l_trivial
       THEN /\ l_hop' = TRUE
            /\ rstate' = trivial_state
            /\ st_list' = [st_list EXCEPT ![1] = trivial_state]
       ELSE /\ l_hop' = FALSE
            /\ UNCHANGED <<rstate, st_list>>
    /\ event' = event \o trivial_events(rstate', rstate)
    /\ calls' = Append(calls, Call("trivial_hop", -1))
    /\ pc' = "done"
    /\ UNCHANGED <<cfg, kin, data, rand, prob, acc_prob, l_reject, istep>>

\* the head of a step of the MD loop of BOMD.run: the backend request
\* qed.get_data(..., calc_force_only=False) sets the trivial-crossing flag and
\* its target
bomd_step ==
    /\ pc = "printed"
    /\ variant = "bomd"
    /\ istep < NSteps - 1
    /\ istep' = istep + 1
    /\ calls' = <<>>
    /\ \E t \in NoTrivial \cup Trivial :
          /\ l_trivial' = t.l_trivial
          /\ trivial_state' = t.trivial_state
    /\ pc' = "trivial_hop"
    /\ UNCHANGED <<cfg, eng, kin>>
    /\ UNCHANGED <<nac, energy, rho, nacme, ham_d, unitary, coef>>

Next == hop_prob \/ hop_check \/ evaluate_hop

\* one step of the engine on every velocity-rescaling input
Init == InitWith(CfgWide, KinWide, ProbNarrow, NoTrivial)

Spec == Init /\ [][Next]_vars

\* one step of the engine on every probability input
InitSel == InitWith(CfgNarrow, KinNarrow, ProbWide, NoTrivial)

SpecSel == InitSel /\ [][Next]_vars

\* one step of the cavity engine in which the backend flags a trivial crossing
InitTriv == InitWith(CfgCavity, KinWide, ProbNarrow, Trivial)

SpecTriv == InitTriv /\ [][Next]_vars

\* the arguments of a construction: mqc SH takes no dec_correction
CtorArgs == [vel_rescale : CtorModes, vel_reject : CtorRejects,
             dec_correction : CtorDecs, l_nacme : BOOLEAN]

\* the constructor has assigned the hopping variables and is about to check
\* its arguments
InitCtor ==
    /\ variant \in Variants
    /\ ctor \in CtorArgs
    /\ variant = "mqc" => ctor.dec_correction = "none"
    /\ vel_rescale = Unset /\ vel_reject = Unset /\ dec_correction = Unset
    /\ mass = <<1, 1>>
    /\ elec_object = "coefficient"
    /\ edc_parameter = EdcDefault
    /\ out_freq = OutFreqDefault
    /\ istep = -1 /\ calls = <<>>
    /\ \E istate \in States :
          /\ rstate = istate /\ rstate_old = istate /\ st_list = <<istate>>
    /\ rand = Zero
    /\ prob = [i \in States |-> Zero]
    /\ acc_prob = [i \in 0 .. NSt |-> Zero]
    /\ l_hop = FALSE /\ l_reject = FALSE
    /\ event = <<>>
    /\ pc = "construct"
    /\ \E k \in KinNarrow, e \in ProbNarrow : Backend(k, e)
    /\ l_trivial = FALSE /\ trivial_state = 0

NextCtor == construct \/ hop_prob \/ hop_check \/ evaluate_hop

\* the construction of the engine and its first step
SpecCtor == InitCtor /\ [][NextCtor]_vars

\* the cavity engine with the instantaneous decoherence correction
CfgDec == [variant : {"qed"}, vel_rescale : {"momentum"}, vel_reject : Rejects,
           mass : {<<1, 1>>}, elec_object : {"coefficient", "density"}]

InitDec ==
    /\ \E c \in CfgDec :
          /\ variant = c.variant
          /\ vel_rescale = c.vel_rescale
          /\ vel_reject = c.vel_reject
          /\ mass = c.mass
          /\ elec_object = c.elec_object
          /\ ctor = [vel_rescale |-> c.vel_rescale, vel_reject |-> c.vel_reject,
                     dec_correction |-> "idc", l_nacme |-> FALSE]
    /\ dec_correction = "idc"
    /\ edc_parameter = EdcDefault
    /\ out_freq = OutFreqDefault
    /\ \E istate \in States : Constructed(istate)
    /\ \E k \in KinWide, e \in ProbNarrow : Backend(k, e)
    /\ l_trivial = FALSE /\ trivial_state = 0

NextDec == hop_prob \/ hop_check \/ evaluate_hop \/ decoherence

\* one step of the cavity engine followed by its decoherence correction
SpecDec == InitDec /\ [][NextDec]_vars

\* the cavity engine with either decoherence correction: kinetic energies on
\* both sides of eps, populated and unpopulated states, trivial crossings
CfgEdc == [variant : {"qed"}, vel_rescale : {"momentum"}, vel_reject : {"keep"},
           mass : {<<1, 2>>}, elec_object : {"coefficient", "density"},
           dec_correction : {"idc", "edc"}, edc_parameter : {Num(1), Num(2)}]

KinEdc == [vel : {<<1, 1>>, <<1, 0>>, <<0, 1>>, <<0, 0>>}, d : {<<1, 0>>}, energy : EnergySet]

ProbEdc == [c : {[i \in States |-> IF i = 1 THEN Re(-1) ELSE Re(1)],
                 [i \in States |-> IF i = 0 THEN Re(1) ELSE Re(0)],
                 [i \in States |-> IF i = 0 THEN Re(2) ELSE IF i = 1 THEN Im(1) ELSE Re(0)]},
            u : {[pr \in UpperPairs |-> 1]},
            h : {[pr \in UpperPairs |-> 0]},
            U : {Identity}]

InitEdc ==
    /\ \E c \in CfgEdc :
          /\ variant = c.variant
          /\ vel_rescale = c.vel_rescale
          /\ vel_reject = c.vel_reject
          /\ mass = c.mass
          /\ elec_object = c.elec_object
          /\ dec_correction = c.dec_correction
          /\ edc_parameter = c.edc_parameter
          /\ out_freq = OutFreqDefault
          /\ ctor = [vel_rescale |-> c.vel_rescale, vel_reject |-> c.vel_reject,
                     dec_correction |-> c.dec_correction, l_nacme |-> FALSE]
    /\ \E istate \in States : Constructed(istate)
    /\ \E k \in KinEdc, e \in ProbEdc : Backend(k, e)
    /\ \E t \in NoTrivial \cup Trivial :
          l_trivial = t.l_trivial /\ trivial_state = t.trivial_state

\* one step of the cavity engine followed by either decoherence correction
SpecEdc == InitEdc /\ [][NextDec]_vars

\* the output frequencies of the runs: every step, every second step
OutFreqs == {OutFreqDefault, 2}

\* BOMD.__init__ and BOMD.run up to the end of the step -1, which calls no
\* trivial_hop
InitBomd ==
    /\ variant = "bomd"
    /\ vel_rescale = Unset
    /\ vel_reject = Unset
    /\ mass = <<1, 1>>
    /\ ctor = [vel_rescale |-> Unset, vel_reject |-> Unset, dec_correction |-> "none",
               l_nacme |-> FALSE]
    /\ dec_correction = "none"
    /\ elec_object = "coefficient"
    /\ edc_parameter = EdcDefault
    /\ out_freq \in OutFreqs
    /\ \E istate \in States :
          /\ rstate = istate
          /\ rstate_old = istate
          /\ st_list = <<istate>>
    /\ l_hop = FALSE
    /\ event = <<>>
    /\ rand = Zero
    /\ prob = [i \in States |-> Zero]
    /\ acc_prob = [i \in 0 .. Cardinality(States) |-> Zero]
    /\ l_reject = FALSE
    /\ istep = -1
    /\ calls = <<>>
    /\ \E k \in KinRun, e \in ProbRun : Backend(k, e)
    /\ \E t \in NoTrivial \cup Trivial :
          /\ l_trivial = t.l_trivial
          /\ trivial_state = t.trivial_state
    /\ pc = "end"

NextBomd == trivial_hop \/ force_only \/ output \/ bomd_step

\* the steps -1 .. NSteps - 1 of BOMD.run
SpecBomd == InitBomd /\ [][NextBomd]_vars

\* the engine over the steps -1 .. NSteps - 1 of SH.run
CfgRun == {c \in [variant : Variants, vel_rescale : {"momentum"}, vel_reject : Rejects,
                  mass : {<<1, 1>>}, dec_correction : {"none", "idc"}] :
             c.variant = "mqc" => c.dec_correction = "none"}

InitRun ==
    /\ \E c \in CfgRun :
          /\ variant = c.variant
          /\ vel_rescale = c.vel_rescale
          /\ vel_reject = c.vel_reject
          /\ mass = c.mass
          /\ dec_correction = c.dec_correction
          /\ ctor = [vel_rescale |-> c.vel_rescale, vel_reject |-> c.vel_reject,
                     dec_correction |-> c.dec_correction, l_nacme |-> FALSE]
    /\ elec_object = "coefficient"
    /\ edc_parameter = EdcDefault
    /\ out_freq \in OutFreqs
    /\ \E istate \in States : Constructed(istate)
    /\ \E k \in KinRun, e \in ProbRun : Backend(k, e)
    /\ \E t \in NoTrivial \cup Trivial :
          /\ l_trivial = (variant = "qed" /\ t.l_trivial)
          /\ trivial_state = (IF variant = "qed" THEN t.trivial_state ELSE 0)

NextRun ==
    hop_prob \/ hop_check \/ evaluate_hop \/ decoherence \/ force_only \/ output \/ next_step

SpecRun == InitRun /\ [][NextRun]_vars

\* one step of the engine on electronic states with unpopulated states
InitPop == InitWith(CfgNarrow, KinNarrow, ProbPop, NoTrivial)

SpecPop == InitPop /\ [][Next]_vars


\* ------------------------------------------------------------ claims
\* The quantities the claims speak of, written from the state of the step and
\* not from the operators of evaluate_hop.

\* a hop selected by hop_check is about to be evaluated, with no trivial crossing
Selected == pc = "evaluate_hop" /\ l_hop /\ ~l_trivial

\* dE = E[new] - E[old]
GapE == Num(energy[rstate] - energy[rstate_old])

\* the coupling vector between the old and the new state
CouplingD == nac[rstate_old][rstate]

QuadraticModes == {"velocity", "momentum", "augment"}

CoefA == IF vel_rescale = "velocity"
         THEN Add(Num(mass[1] * CouplingD[1] * CouplingD[1]),
                  Num(mass[2] * CouplingD[2] * CouplingD[2]))
         ELSE Add(Rat(CouplingD[1] * CouplingD[1], mass[1]),
                  Rat(CouplingD[2] * CouplingD[2], mass[2]))

CoefB == IF vel_rescale = "velocity"
         THEN Add(Mul(Num(2 * mass[1] * CouplingD[1]), vel[1]),
                  Mul(Num(2 * mass[2] * CouplingD[2]), vel[2]))
         ELSE Add(Mul(Num(2 * CouplingD[1]), vel[1]), Mul(Num(2 * CouplingD[2]), vel[2]))

\* det = b^2 - 4ac with c = 2 dE
Discriminant == Sub(Mul(CoefB, CoefB), Mul(Num(8), Mul(CoefA, GapE)))

HasEntry(msg) == \E n \in 1 .. Len(event) : event[n].msg = msg

\* C1: a selected hop whose QM kinetic energy is strictly below dE is rejected
\* in every rescaling mode: l_reject is true and l_hop false at return.
C1_ForbiddenHopRejected ==
    [][(Selected /\ Lt(ekin_qm, GapE)) => (l_reject' /\ ~l_hop')]_vars

C1_Witness ==
    /\ pc = "done"
    /\ l_reject /\ ~l_hop
    /\ vel_rescale = "augment"
    /\ HasEntry("Reject hopping: smaller kinetic energy")

\* C2: when evaluate_hop rejects a selected hop, at return rstate equals
\* rstate_old, the first entry of the caller's state list equals that same
\* pre-hop state, and l_hop is false.
C2_RejectRestoresState ==
    [][(Selected /\ l_reject')
         => (rstate' = rstate_old /\ rstate_old' = rstate_old
             /\ st_list'[1] = rstate_old /\ ~l_hop')]_vars

C2_Witness ==
    /\ pc = "done"
    /\ l_reject /\ ~l_hop
    /\ rstate = rstate_old /\ st_list[1] = rstate_old
    /\ HasEntry("Reject hopping: velocity is reversed")

\* C3: in augment mode every selected hop with kinetic energy strictly above dE
\* is accepted, also when det < 0; with det < 0 the velocities are multiplied by
\* x = sqrt(1 - dE / E_kin) and nothing is added along the coupling vector.
C3_AugmentNeverFrustrated ==
    [][(Selected /\ vel_rescale = "augment" /\ Gt(ekin_qm, GapE))
         => /\ l_hop' /\ ~l_reject'
            /\ Lt(Discriminant, Zero)
                 => vel' = [k \in Atoms |->
                              Mul(vel[k], Sqrt(Sub(One, Div(GapE, ekin_qm))))]]_vars

C3_Witness ==
    /\ pc = "done"
    /\ vel_rescale = "augment"
    /\ l_hop /\ ~l_reject
    /\ HasEntry("Accept hopping: velocity is simply rescaled")

\* C4: in velocity and momentum mode a selected hop is accepted if and only if
\* the kinetic energy is at least dE and det >= 0.
C4_QuadraticAcceptIff ==
    [][(Selected /\ vel_rescale \in {"velocity", "momentum"})
         => /\ l_hop' <=> (Le(GapE, ekin_qm) /\ Le(Zero, Discriminant))
            /\ l_reject' <=> ~l_hop']_vars

\* a hop with enough kinetic energy and no real root was rejected
C4_Witness ==
    /\ pc = "done"
    /\ vel_rescale = "velocity"
    /\ l_reject /\ ~l_hop
    /\ ~HasEntry("Reject hopping: smaller kinetic energy")

\* C5: in energy mode a selected hop with kinetic energy below eps (zero
\* included) is frustrated whatever the sign of dE, and with policy "keep" the
\* velocities after evaluate_hop are those before it.
C5_EnergyModeNoKinetic ==
    [][(Selected /\ vel_rescale = "energy" /\ Lt(ekin_qm, Num(Eps)))
         => /\ l_reject' /\ ~l_hop'
            /\ vel_reject = "keep" => vel' = vel]_vars

\* frustrated with a kinetic energy below eps that is not below dE
C5_Witness ==
    /\ pc = "done"
    /\ vel_rescale = "energy" /\ vel_reject = "keep"
    /\ l_reject
    /\ Gt(ekin_qm, Zero) /\ Lt(ekin_qm, Num(Eps))
    /\ ~HasEntry("Reject hopping: smaller kinetic energy")

\* C6: with policy "keep" every frustrated hop leaves the velocities unchanged,
\* in all four modes and for every cause of rejection.
C6_KeepLeavesVelocities ==
    [][(Selected /\ vel_reject = "keep" /\ l_reject') => vel' = vel]_vars

C6_Witness ==
    /\ pc = "done"
    /\ vel_reject = "keep" /\ vel_rescale = "momentum"
    /\ l_reject
    /\ HasEntry("Reject hopping: smaller kinetic energy")
    /\ \E k \in Atoms : vel[k] # Zero

\* C7 (as claimed): with policy "reverse" a frustrated hop in a quadratic mode
\* adds x * d (velocity mode) or x * d / mass (momentum, augment) to the
\* velocities, with x = - b / a and d the coupling vector of the hop.
C7_ReverseAlongCoupling ==
    [][(Selected /\ vel_reject = "reverse" /\ vel_rescale \in QuadraticModes /\ l_reject')
         => vel' = [k \in Atoms |->
                      Add(vel[k],
                          IF vel_rescale = "velocity"
                          THEN Mul(Div(Neg(CoefB), CoefA), Num(CouplingD[k]))
                          ELSE Div(Mul(Div(Neg(CoefB), CoefA), Num(CouplingD[k])),
                                   Num(mass[k])))]]_vars

\* the entries a step appends to event["HOP"], as the code does it
C8_Appended ==
    1 + (IF l_reject' /\ Lt(ekin_qm, GapE) THEN 1 ELSE 0)
      + (IF ~l_reject' /\ vel_rescale = "augment" /\ Lt(Discriminant, Zero) THEN 1 ELSE 0)

\* C8 (as claimed): every accepted and every frustrated hop appends exactly one
\* entry to event["HOP"].
C8_OneEntryPerHop ==
    [][Selected => Len(event') = Len(event) + 1]_vars

\* C8 (amended): every evaluated hop appends one entry, and a second one when
\* it is rejected for a kinetic energy below dE or accepted in augment mode
\* with det < 0.
C8_OneOrTwoEntries ==
    [][Selected => (Len(event') = Len(event) + C8_Appended
                    /\ \A n \in 1 .. Len(event) : event'[n] = event[n])]_vars

C8_Witness ==
    /\ pc = "done"
    /\ Len(event) = 2
    /\ l_reject
    /\ HasEntry("Reject hopping: smaller kinetic energy")
    /\ HasEntry("Reject hopping: velocity is not changed")

\* the draw falls in no candidate interval of the step
SilentDraw ==
    \A i \in States \ {rstate_old} : ~(Gt(rand, acc_prob[i]) /\ Le(rand, acc_prob[i + 1]))

\* C9: a step whose draw falls in no candidate interval is silent: hop_check
\* and evaluate_hop leave the active state, the state list and the velocities
\* unchanged, l_hop is false and nothing is appended to event["HOP"].
C9_SilentStep ==
    [][(pc \in {"hop_check", "evaluate_hop"} /\ SilentDraw')
         => (rstate' = rstate /\ st_list' = st_list /\ vel' = vel
             /\ ~l_hop' /\ event' = event)]_vars

\* a draw that missed although some hop had a positive probability
C9_Witness ==
    /\ pc = "done"
    /\ SilentDraw
    /\ Gt(acc_prob[NSt], Zero)
    /\ Gt(rand, Zero)
    /\ rstate = rstate_old /\ ~l_hop /\ event = <<>>

\* the candidates whose interval holds the draw r
Candidates(r) ==
    {i \in States \ {rstate} : Gt(r, acc_prob[i]) /\ Le(r, acc_prob[i + 1])}

\* C10: hop_check selects at most one target: the active state after it is the
\* unique candidate i with acc[i] < rand <= acc[i+1] when there is one, and is
\* unchanged otherwise.
C10_AtMostOneTarget ==
    [][pc = "hop_check"
         => /\ Cardinality(Candidates(rand')) <= 1
            /\ Candidates(rand') = {} => (rstate' = rstate /\ ~l_hop')
            /\ Candidates(rand') # {} => (rstate' \in Candidates(rand') /\ l_hop'
                                          /\ st_list'[1] = rstate')]_vars

\* a hop to a state below the old one, so that the scan went on past the old
\* state, with two candidates of positive probability
C10_Witness ==
    /\ pc = "evaluate_hop"
    /\ l_hop
    /\ rstate = 0 /\ rstate_old = 2
    /\ Gt(prob[0], Zero) /\ Gt(prob[1], Zero)

\* C11: the selection intervals are open on the left and closed on the right:
\* a draw equal to acc[i] never selects candidate i, and a draw equal to
\* acc[i+1] with acc[i] < acc[i+1] selects candidate i.
C11_OpenLeftClosedRight ==
    [][pc = "hop_check"
         => \A i \in States \ {rstate} :
               /\ rand' = acc_prob[i] => rstate' # i
               /\ (rand' = acc_prob[i + 1] /\ Lt(acc_prob[i], acc_prob[i + 1]))
                    => (rstate' = i /\ l_hop')]_vars

\* the draw sits on the boundary between two candidates of positive
\* probability: the lower one is selected, the upper one is not
C11_Witness ==
    /\ pc = "evaluate_hop"
    /\ l_hop
    /\ rstate = 0 /\ rstate_old = 2
    /\ Gt(prob[0], Zero) /\ Gt(prob[1], Zero)
    /\ rand = acc_prob[1]

\* C12: after hop_prob, when the active state has a positive population, every
\* prob[i] is >= 0, the probability of the active state is 0, acc_prob[0] = 0,
\* acc_prob[i+1] = acc_prob[i] + prob[i], and acc_prob is non-decreasing, also
\* after the renormalization.
C12_ProbVectorShape ==
    (pc = "hop_check" /\ Gt(rho[rstate][rstate].re, Zero))
      => /\ \A i \in States : Le(Zero, prob[i])
         /\ prob[rstate] = Zero
         /\ acc_prob[0] = Zero
         /\ \A i \in States :
               /\ acc_prob[i + 1] = Add(acc_prob[i], prob[i])
               /\ Le(acc_prob[i], acc_prob[i + 1])

\* raw probabilities 1/2 and 1 were renormalized to 1/3 and 2/3
C12_Witness ==
    /\ pc = "hop_check"
    /\ Gt(rho[rstate][rstate].re, Zero)
    /\ acc_prob[NSt] = One
    /\ \E i \in States : prob[i] = Rat(1, 3)
    /\ \E i \in States : prob[i] = Rat(2, 3)

\* the sum of the clamped raw probabilities of the step
C13_RawSum == NpSum([k \in 1 .. NSt |-> prob_raw(k - 1)])

\* C13: after hop_prob acc_prob[N] never exceeds 1: a clamped raw sum above 1
\* divides prob and acc_prob by that sum, so that acc_prob[N] = 1, and a sum of
\* at most 1 leaves them unscaled.
C13_TotalAtMostOne ==
    [][pc = "hop_prob"
         => /\ Le(acc_prob'[NSt], One)
            /\ Gt(C13_RawSum, One)
                 => /\ acc_prob'[NSt] = One
                    /\ \A i \in States : prob'[i] = Div(prob_raw(i), C13_RawSum)
                    /\ \A i \in States :
                          acc_prob'[i + 1] = Add(acc_prob'[i], prob'[i])
            /\ Le(C13_RawSum, One)
                 => /\ acc_prob'[NSt] = C13_RawSum
                    /\ \A i \in States : prob'[i] = prob_raw(i)]_vars

\* a renormalized vector: the total is 1 and no candidate holds all of it
C13_Witness ==
    /\ pc = "hop_check"
    /\ acc_prob[NSt] = One
    /\ \E i \in States : Gt(prob[i], Rat(1, 2)) /\ Lt(prob[i], One)
    /\ \E i \in States : Gt(prob[i], Zero) /\ Lt(prob[i], Rat(1, 2))

\* C14 (as claimed): with a zero population of the active state hop_prob
\* yields all-zero prob and acc_prob, and no hop is selected for any draw.
C14_ZeroPopulationGuarded ==
    (pc \in {"hop_check", "evaluate_hop"} /\ rho[rstate_old][rstate_old].re = Zero)
      => /\ \A i \in States : prob[i] = Zero
         /\ \A n \in 0 .. NSt : acc_prob[n] = Zero
         /\ ~l_hop

\* the coupling vector of the hop is identically zero, so that a = 0
ZeroCoupling == \A k \in Atoms : CouplingD[k] = 0

\* C15 (as claimed): in a quadratic mode a selected hop with a zero coupling
\* vector is frustrated, and no undefined value is written into the velocities.
C15_ZeroCouplingFrustrated ==
    [][(Selected /\ vel_rescale \in QuadraticModes /\ ZeroCoupling)
         => (l_reject' /\ ~l_hop' /\ \A k \in Atoms : IsFinite(vel'[k]))]_vars

\* a trivial crossing is flagged with a target other than the active state
TrivialStep(r) == variant = "qed" /\ l_trivial /\ trivial_state # r

\* C16 (as claimed): in a step with a trivial crossing flagged to t # r,
\* hop_prob sets prob[t] = 1 and every other entry to 0, and for every draw in
\* [0, 1) the active state after hop_check is t.
C16_TrivialDeterministic ==
    [][/\ (pc = "hop_prob" /\ TrivialStep(rstate))
            => \A i \in States : prob'[i] = (IF i = trivial_state THEN One ELSE Zero)
       /\ (pc = "hop_check" /\ TrivialStep(rstate))
            => (rstate' = trivial_state /\ l_hop')]_vars

\* C17: a hop selected in a step flagged as trivial crossing is never
\* frustrated: evaluate_hop keeps the new active state and l_hop true, leaves
\* the velocities unchanged and appends exactly one 'Trivial crossing hopping'
\* event.
C17_TrivialNeverFrustrated ==
    [][(pc = "evaluate_hop" /\ l_hop /\ variant = "qed" /\ l_trivial)
         => /\ rstate' = rstate /\ l_hop' /\ st_list'[1] = rstate
            /\ vel' = vel /\ ekin_qm' = ekin_qm
            /\ event' = Append(event, [msg |-> "Trivial crossing hopping: hop",
                                        a |-> rstate_old, b |-> rstate])]_vars

\* a trivial hop upwards in energy with no kinetic energy at all, which the
\* rejection rules would have frustrated
C17_Witness ==
    /\ pc = "done"
    /\ l_trivial /\ l_hop
    /\ rstate = trivial_state /\ rstate # rstate_old
    /\ ekin_qm = Zero
    /\ energy[rstate] > energy[rstate_old]
    /\ HasEntry("Trivial crossing hopping: hop")

\* the arguments as given are refused by the rules of the constructor
C18_Invalid(m, r) ==
    \/ m \notin {"energy", "velocity", "momentum", "augment"}
    \/ r \notin {"keep", "reverse"}
    \/ ctor.l_nacme /\ (m \in {"velocity", "momentum", "augment"} \/ r = "reverse")

\* C18 (as claimed): a rescaling mode outside {energy, velocity, momentum,
\* augment}, a rejection mode outside {keep, reverse}, or a mode that needs
\* coupling vectors when there are none, raises an error in the constructor,
\* and no value is replaced by another one.
C18_InvalidArgumentsRaise ==
    [][pc = "construct"
         => /\ C18_Invalid(ctor.vel_rescale, ctor.vel_reject) => pc' = "raised"
            /\ pc' # "raised" => (vel_rescale' = ctor.vel_rescale
                                  /\ vel_reject' = ctor.vel_reject)]_vars

\* the argument as the variant compares it: lowered in the cavity variant
C18_Folded(s) == IF variant = "qed" THEN lower(s) ELSE s

\* C18 (amended): the same with the arguments compared after lowering their
\* case in the cavity variant, and stored so.
C18_InvalidAfterFolding ==
    [][pc = "construct"
         => /\ C18_Invalid(C18_Folded(ctor.vel_rescale), C18_Folded(ctor.vel_reject))
                 => pc' = "raised"
            /\ pc' # "raised" => (vel_rescale' = C18_Folded(ctor.vel_rescale)
                                  /\ vel_reject' = C18_Folded(ctor.vel_reject))]_vars

\* the default modes of the mqc constructor refused for want of coupling vectors
C18_Witness ==
    /\ pc = "raised"
    /\ ctor.l_nacme
    /\ ctor.vel_rescale = "momentum" /\ ctor.vel_reject = "reverse"

\* the two roots of a x^2 + b x + 2 dE = 0
C19_Roots ==
    {Div(Add(Neg(CoefB), Sqrt(Discriminant)), Mul(Two, CoefA)),
     Div(Sub(Neg(CoefB), Sqrt(Discriminant)), Mul(Two, CoefA))}

\* the velocities moved by x along the coupling vector, as the mode does it
C19_Moved(x) ==
    [k \in Atoms |->
       Add(vel[k], IF vel_rescale = "velocity" THEN Mul(x, Num(CouplingD[k]))
                   ELSE Div(Mul(x, Num(CouplingD[k])), Num(mass[k])))]

\* C19 (as claimed): a hop accepted with det >= 0 in a quadratic mode moves
\* the velocities by a root x of a x^2 + b x + 2 dE = 0, and the QM kinetic
\* energy after the update is the kinetic energy before minus dE.
C19_EnergyConserved ==
    [][(Selected /\ vel_rescale \in QuadraticModes /\ l_hop' /\ Le(Zero, Discriminant))
         => /\ \E x \in C19_Roots : vel' = C19_Moved(x)
            /\ ekin_qm' = Sub(ekin_qm, GapE)]_vars

\* the same without the two faults: a is not 0, and augment has det > 0
C19_ConservedOutsideFaults ==
    [][(Selected /\ vel_rescale \in QuadraticModes /\ l_hop' /\ Le(Zero, Discriminant)
        /\ ~ZeroCoupling /\ (vel_rescale = "augment" => Gt(Discriminant, Zero)))
         => /\ \E x \in C19_Roots : vel' = C19_Moved(x)
            /\ ekin_qm' = Sub(ekin_qm, GapE)]_vars

\* C20: after correct_dec_idc the density matrix has 1 at [rstate, rstate] and
\* 0 everywhere else, with elec_object "coefficient" the coefficient of rstate
\* is 1 + 0i and all the others are 0, and after a frustrated hop the collapse
\* is onto the restored pre-hop state.
C20_IdcCollapse ==
    [][(pc = "done" /\ dec_correction = "idc" /\ (l_hop \/ l_reject))
         => /\ \A i, j \in States :
                  /\ rho'[i][j].re = (IF i = rstate /\ j = rstate THEN One ELSE Zero)
                  /\ rho'[i][j].im = Zero
            /\ elec_object = "coefficient"
                 => \A i \in States :
                       /\ coef'[i].re = (IF i = rstate THEN One ELSE Zero)
                       /\ coef'[i].im = Zero
            /\ l_reject => (rstate = rstate_old /\ rho'[rstate_old][rstate_old].re = One)]_vars

\* a hop to another state was frustrated and the state collapsed onto the
\* state the hop started from
C20_Witness ==
    /\ pc = "corrected"
    /\ l_reject /\ ~l_hop
    /\ elec_object = "coefficient"
    /\ HasEntry("Reject hopping: smaller kinetic energy")
    /\ rho[rstate_old][rstate_old].re = One
    /\ coef[rstate_old].re = One
    /\ \E i \in States \ {rstate_old} : Gt(prob[i], Zero) /\ rho[i][i].re = Zero

\* the decoherence stage of the cavity variant is about to run
DecStage == pc = "done" /\ variant = "qed" /\ pc' = "corrected"

\* the last call the step has made
LastCall == IF calls = <<>> THEN "" ELSE calls[Len(calls)].op

Called(op) == \E n \in 1 .. Len(calls) : calls[n].op = op

\* the first call that the step from this state makes, if it makes one
NextCall ==
    IF Len(calls') > Len(calls) /\ SubSeq(calls', 1, Len(calls)) = calls
    THEN calls'[Len(calls) + 1] ELSE Call("", -1)

\* C21: in the cavity variant with a decoherence scheme, the corrector is
\* called after every hop decision of the step, accepted or frustrated, and
\* after evaluate_hop has returned with the active state committed or rolled
\* back: correct_dec_idc in every such step, correct_dec_edc in every such step
\* whose QM kinetic energy is above eps.
C21_CorrectorAfterDecision ==
    [][(DecStage /\ (l_hop \/ l_reject))
         => /\ LastCall = "evaluate_hop"
            /\ l_reject => rstate = rstate_old
            /\ dec_correction = "idc"
                 => NextCall = Call("correct_dec_idc", -1)
            /\ (dec_correction = "edc" /\ Gt(ekin_qm, Num(Eps)))
                 => NextCall = Call("correct_dec_edc", -1)]_vars

\* both correctors have run after a frustrated hop
C21_Witness ==
    /\ pc = "corrected"
    /\ l_reject /\ ~l_hop /\ rstate = rstate_old
    /\ HasEntry("Reject hopping: velocity is not changed")
    /\ Called(IF dec_correction = "idc" THEN "correct_dec_idc" ELSE "correct_dec_edc")
    /\ Gt(ekin_qm, Num(Eps))

\* C22: in a step of the cavity variant with "edc" whose QM kinetic energy is
\* not above eps, correct_dec_edc is not called and the coefficients and the
\* density matrix after the decoherence stage are those before it.
C22_EdcGuard ==
    [][(DecStage /\ dec_correction = "edc" /\ ~Gt(ekin_qm, Num(Eps)))
         => (calls' = calls /\ coef' = coef /\ rho' = rho)]_vars

\* the stage was passed after a hop at a kinetic energy of exactly eps
C22_Witness ==
    /\ pc = "corrected"
    /\ dec_correction = "edc"
    /\ elec_object = "coefficient"
    /\ l_hop
    /\ ekin_qm = Num(Eps)
    /\ ~Called("correct_dec_edc")

\* the sum of the diagonal of rho_a
TotalPopulation == NpSum([k \in 1 .. NSt |-> rho[k - 1][k - 1].re])

\* C23 (as claimed): after correct_dec_edc the total population is 1, for
\* every kinetic energy above eps, every edc_parameter, every input state and
\* every elec_object.
C23_EdcConservesPopulation ==
    [][(DecStage /\ dec_correction = "edc" /\ Gt(ekin_qm, Num(Eps)))
         => TotalPopulation' = One]_vars

\* the same when the running state is populated
C23_ConservedOnPopulatedState ==
    [][(DecStage /\ dec_correction = "edc" /\ Gt(ekin_qm, Num(Eps))
        /\ rho[rstate][rstate].re # Zero)
         => TotalPopulation' = One]_vars

\* the number of random numbers drawn among the first n calls of the sequence cs
RECURSIVE Draws(_, _)
Draws(cs, n) == IF n = 0 THEN 0
                ELSE Draws(cs, n - 1) + (IF cs[n].op = "random.random" THEN 1 ELSE 0)

\* C24: in every step the engine draws exactly one random number, in
\* hop_check, after hop_prob has rebuilt the cumulative vector and before a
\* target is selected; hop_prob and evaluate_hop draw none; the three are
\* called in the order hop_prob, hop_check, evaluate_hop.
C24_OneDrawPerStep ==
    [][/\ pc = "hop_prob"
            => (calls = <<>> /\ calls' = <<Call("hop_prob", -1)>>)
       /\ pc = "hop_check"
            => /\ calls = <<Call("hop_prob", -1)>>
               /\ calls' = calls \o <<Call("hop_check", -1), Call("random.random", -1)>>
               /\ acc_prob' = acc_prob
               /\ rand' \in RandSet
               /\ rstate' # rstate
                    => (~l_trivial => (Lt(acc_prob[rstate'], rand')
                                        /\ Le(rand', acc_prob[rstate' + 1])))
       /\ pc = "evaluate_hop"
            => /\ calls' = calls \o <<Call("evaluate_hop", -1)>>
               /\ rand' = rand
       /\ pc' = "end"
            => /\ Draws(calls', Len(calls')) = 1
               /\ SubSeq(calls', 1, 4)
                    = <<Call("hop_prob", -1), Call("hop_check", -1),
                        Call("random.random", -1), Call("evaluate_hop", -1)>>]_vars

\* a step of the MD loop has ended with a hop selected by the number it drew
C24_Witness ==
    /\ pc = "end"
    /\ istep = 0
    /\ l_hop /\ ~l_trivial /\ rstate # rstate_old
    /\ Gt(rand, Zero)
    /\ Draws(calls, Len(calls)) = 1

ForceOnly(st) == Call("get_data(calc_force_only=True)", st)

\* C25: in the cavity variant a force-only backend request is issued in a
\* step if and only if a hop was accepted in that step; it is issued after
\* the decoherence stage, and pol_list[0] is then the new active state; after
\* a frustrated or silent step no force-only request is issued.
C25_ForceOnlyOnAcceptedHop ==
    [][(variant = "qed" /\ pc' = "end")
         => IF l_hop
            THEN /\ calls' = Append(calls, ForceOnly(rstate))
                 /\ st_list[1] = rstate
                 /\ ~Called(ForceOnly(rstate).op)
                 /\ dec_correction = "idc" => Called("correct_dec_idc")
            ELSE /\ calls' = calls
                 /\ \A n \in 1 .. Len(calls) : calls[n].op # ForceOnly(rstate).op]_vars

\* the forces of the new active state were asked for after the collapse
C25_Witness ==
    /\ pc = "end"
    /\ variant = "qed" /\ dec_correction = "idc"
    /\ l_hop /\ rstate # rstate_old
    /\ HasEntry("Accept hopping: hop")
    /\ Len(calls) = 7
    /\ calls[5] = Call("correct_dec_idc", -1)
    /\ calls[7] = ForceOnly(rstate)

\* a hop was selected and frustrated in the step: every frustrated hop leaves
\* the record of its rejection policy in event["HOP"]
FrustratedInStep ==
    \/ HasEntry("Reject hopping: velocity is not changed")
    \/ HasEntry("Reject hopping: velocity is reversed")

\* C26 (as claimed): at the end of every step l_reject is true if and only if
\* a hop was selected and frustrated in that same step, so it is false after a
\* silent step and after an accepted trivial-crossing hop, and l_hop and
\* l_reject are never both true.
C26_RejectFlagPerStep ==
    pc = "end" => ((l_reject <=> FrustratedInStep) /\ ~(l_hop /\ l_reject))

\* the same in the first step of a run, where no earlier step has set the flag
C26_PerStepInFirstStep ==
    (pc = "end" /\ istep = -1) => ((l_reject <=> FrustratedInStep) /\ ~(l_hop /\ l_reject))

\* no target was selected in the step
SilentStep == ~l_hop /\ event = <<>>

\* C27 (as claimed): in the cavity variant with "idc", in a step where no
\* target is selected correct_dec_idc is not invoked and the decoherence stage
\* leaves the coefficients and the density matrix unchanged, whatever happened
\* in earlier steps.
C27_SilentStepNoCollapse ==
    [][(DecStage /\ dec_correction = "idc" /\ SilentStep)
         => (calls' = calls /\ rho' = rho /\ coef' = coef)]_vars

\* the same in the first step of a run
C27_NoCollapseInFirstStep ==
    [][(DecStage /\ dec_correction = "idc" /\ SilentStep /\ istep = -1)
         => (calls' = calls /\ rho' = rho /\ coef' = coef)]_vars

\* the factor of the claims: (-b - sqrt(det)) / (2a) for b < 0, else
\* (-b + sqrt(det)) / (2a)
ClaimedRoot ==
    IF Lt(CoefB, Zero)
    THEN Div(Sub(Neg(CoefB), Sqrt(Discriminant)), Mul(Two, CoefA))
    ELSE Div(Add(Neg(CoefB), Sqrt(Discriminant)), Mul(Two, CoefA))

\* C28 (as claimed): in "augment" mode with det >= 0, det = 0 included, the
\* engine does what "momentum" mode does on the same input: the hop is
\* frustrated exactly when the kinetic energy is below dE, and an accepted hop
\* adds x * d / mass to the velocities, x the factor of the quadratic equation.
C28_AugmentAsMomentum ==
    [][(Selected /\ vel_rescale = "augment" /\ Le(Zero, Discriminant))
         => /\ l_reject' = Lt(ekin_qm, GapE)
            /\ l_hop' = ~Lt(ekin_qm, GapE)
            /\ l_hop' => vel' = C19_Moved(ClaimedRoot)]_vars

\* the same for det > 0
C28_AsMomentumForPositiveDet ==
    [][(Selected /\ vel_rescale = "augment" /\ Lt(Zero, Discriminant))
         => /\ l_reject' = Lt(ekin_qm, GapE)
            /\ l_hop' = ~Lt(ekin_qm, GapE)
            /\ l_hop' => vel' = C19_Moved(ClaimedRoot)]_vars

AbsV(x) == IF Sign(x) < 0 THEN Neg(x) ELSE x

\* the factor x that evaluate_hop computes for the accepted hop of the step
FactorOfStep ==
    accept_x(vel_rescale, pot_diff_of(rstate, rstate_old), ekin_qm,
             quad_a(vel_rescale, CouplingD), quad_b(vel_rescale, CouplingD, vel),
             quad_det(vel_rescale, quad_a(vel_rescale, CouplingD),
                      quad_b(vel_rescale, CouplingD, vel),
                      pot_diff_of(rstate, rstate_old)))

\* x is the root of a x^2 + b x + 2 dE = 0 that is not larger in absolute value
SmallerRoot(x) ==
    /\ Add(Add(Mul(CoefA, Mul(x, x)), Mul(CoefB, x)), Mul(Two, GapE)) = Zero
    /\ \A y \in C19_Roots : Le(AbsV(x), AbsV(y))

\* C29 (as claimed): for an accepted hop with det >= 0 in a quadratic mode
\* the factor is (-b - sqrt(det)) / (2a) when b < 0 and (-b + sqrt(det)) / (2a)
\* otherwise, and it is the root of a x^2 + b x + c = 0 of smaller or equal
\* absolute value, for both signs of dE.
C29_SmallerRootChosen ==
    [][(Selected /\ vel_rescale \in QuadraticModes /\ l_hop' /\ Le(Zero, Discriminant))
         => (FactorOfStep = ClaimedRoot /\ SmallerRoot(FactorOfStep))]_vars

\* the same when the coupling vector is not zero
C29_SmallerRootOfCoupledStates ==
    [][(Selected /\ vel_rescale \in QuadraticModes /\ l_hop' /\ Le(Zero, Discriminant)
        /\ ~ZeroCoupling)
         => (FactorOfStep = ClaimedRoot /\ SmallerRoot(FactorOfStep))]_vars

\* C30: in "energy" mode with the rejection policy "reverse" every frustrated
\* hop uses x = -1, from a = 1 and b = 1, and multiplies every QM velocity
\* component by -1, which leaves the QM kinetic energy unchanged.
C30_EnergyReverseFlipsVelocities ==
    [][(Selected /\ vel_rescale = "energy" /\ vel_reject = "reverse" /\ l_reject')
         => /\ quad_a(vel_rescale, CouplingD) = One
            /\ quad_b(vel_rescale, CouplingD, vel) = One
            /\ reject_x(quad_a(vel_rescale, CouplingD),
                        quad_b(vel_rescale, CouplingD, vel)) = Num(-1)
            /\ vel' = [k \in Atoms |-> Neg(vel[k])]
            /\ ekin_qm' = ekin_qm]_vars

\* a frustrated hop has reversed velocities that are not zero
C30_Witness ==
    /\ pc = "done"
    /\ vel_rescale = "energy" /\ vel_reject = "reverse"
    /\ l_reject /\ ~l_hop
    /\ HasEntry("Reject hopping: velocity is reversed")
    /\ vel[1] = Num(-1) /\ vel[2] = Num(-1)
    /\ Gt(ekin_qm, Zero)

\* the calls that the step from this state adds to those of the step so far
NewCalls == SubSeq(calls', Len(calls) + 1, Len(calls'))

\* C31: in the cavity variant, whenever the decoherence stage applies a
\* correction (IDC or EDC), qed.transform(mode="a2d") is called immediately
\* after it, before anything else of the run, and the stage does not call the
\* transform when it applies no correction.
C31_TransformAfterCorrection ==
    [][DecStage
         => /\ SubSeq(calls', 1, Len(calls)) = calls
            /\ NewCalls \in {<<>>,
                              <<Call("correct_dec_idc", -1), Call("qed.transform(a2d)", -1)>>,
                              <<Call("correct_dec_edc", -1), Call("qed.transform(a2d)", -1)>>}
            /\ (rho' # rho \/ coef' # coef) => NewCalls # <<>>]_vars

\* the energy-based correction has run after an accepted hop and the transform
\* is the last call of the step
C31_Witness ==
    /\ pc = "corrected"
    /\ dec_correction = "edc"
    /\ l_hop /\ rstate # rstate_old
    /\ Len(calls) = 6
    /\ calls[5] = Call("correct_dec_edc", -1)
    /\ calls[6] = Call("qed.transform(a2d)", -1)

\* evaluate_hop has returned and the step has not started the next one
StepDecided == pc \in {"done", "corrected", "end", "printed"}

\* C32: at the end of every step, after evaluate_hop, whatever silent, accepted,
\* frustrated and trivial-crossing steps came before, the first entry of the
\* state list (bo_list[0], pol_list[0] in the cavity variant) is the running
\* state rstate, and rstate is a state index in [0, N).
C32_StateListFollowsRunningState ==
    StepDecided => (st_list[1] = rstate /\ rstate \in States)

\* the last step of the loop has ended frustrated: the running state and the
\* state list are back on the old state
C32_Witness ==
    /\ pc = "end"
    /\ istep = NSteps - 1
    /\ l_reject /\ ~l_hop /\ FrustratedInStep
    /\ rstate = rstate_old
    /\ st_list[1] = rstate

\* the step from this state is the output at the end of a step of the MD loop
OutputStage == pc = "end" /\ pc' = "printed" /\ istep >= 0

\* C33: every hop event is reported in the step that produced it: in the MD
\* loop print_step is called in every step whose event["HOP"] is not empty,
\* whatever out_freq is, and print_step empties the list, so that event["HOP"]
\* is empty whenever hop_prob starts a step.
C33_EventsPrintedInTheirStep ==
    /\ [](pc = "hop_prob" => event = <<>>)
    /\ [][(OutputStage /\ event # <<>>)
           => (calls' = Append(calls, Call("print_step", istep)) /\ event' = <<>>)]_vars

\* a step of the MD loop that is off the output frequency has printed its hop
\* record and emptied the list
C33_Witness ==
    /\ pc = "printed"
    /\ out_freq = 2 /\ istep = 0
    /\ l_hop /\ rstate # rstate_old
    /\ LastCall = "print_step"
    /\ event = <<>>

\* the accepted hop of the step takes the branch x = sqrt(1 - pot_diff / ekin_qm)
IsotropicFactorComputed ==
    /\ Selected /\ l_hop'
    /\ \/ vel_rescale = "energy"
       \/ vel_rescale = "augment" /\ Lt(Discriminant, Zero)

\* C34: whenever evaluate_hop computes the isotropic factor
\* x = sqrt(1 - dE / E_kin) (an accepted hop in "energy" mode, or an accepted
\* hop in "augment" mode with det < 0), the QM kinetic energy is strictly
\* positive and 1 - dE / E_kin is not negative, so that the factor is a
\* well-defined real number.
C34_IsotropicFactorDefined ==
    [][IsotropicFactorComputed
         => /\ Gt(ekin_qm, Zero)
            /\ Le(Zero, Sub(One, Div(GapE, ekin_qm)))
            /\ IsFinite(FactorOfStep)
            /\ Le(Zero, FactorOfStep)]_vars

\* an upward hop in "augment" mode with det < 0 has been accepted and the
\* velocities were scaled by the isotropic factor
C34_Witness ==
    /\ pc = "done"
    /\ vel_rescale = "augment"
    /\ l_hop /\ ~l_reject /\ rstate # rstate_old
    /\ energy[rstate] > energy[rstate_old]
    /\ HasEntry("Accept hopping: velocity is simply rescaled")
    /\ \A k \in Atoms : IsFinite(vel[k])

\* the step from this state is BOMD.trivial_hop
TrivialHopStage == pc = "trivial_hop" /\ variant = "bomd" /\ pc' = "done"

TrivialRecords(ev) ==
    {n \in 1 .. Len(ev) : ev[n].msg = "Trivial crossing hopping: hop"}

\* C35 (as claimed): in BOMD trivial_hop, when the backend flag l_trivial is
\* false the active state and pol_list are unchanged, l_hop is false and
\* nothing is logged; when it is true the active state and pol_list[0] become
\* trivial_state, and l_hop is true exactly when the active state has actually
\* changed, with exactly one "Trivial crossing hopping" record in that case.
C35_TrivialHop ==
    [][TrivialHopStage
         => /\ ~l_trivial => (rstate' = rstate /\ st_list' = st_list /\ ~l_hop'
                              /\ event' = event)
            /\ l_trivial => /\ rstate' = trivial_state
                            /\ st_list'[1] = trivial_state
                            /\ l_hop' = (rstate' # rstate)
                            /\ (rstate' # rstate)
                                 => /\ Len(event') = Len(event) + 1
                                    /\ Cardinality(TrivialRecords(event')) = 1]_vars

\* what BOMD.trivial_hop does: l_hop is the backend flag, and one record is
\* logged exactly when the active state has changed
C35_HopFlagIsTrivialFlag ==
    [][TrivialHopStage
         => /\ l_hop' = l_trivial
            /\ ~l_trivial => (rstate' = rstate /\ st_list' = st_list /\ event' = event)
            /\ l_trivial => (rstate' = trivial_state /\ st_list'[1] = trivial_state)
            /\ event' = event \o (IF rstate' # rstate
                                  THEN <<Entry("Trivial crossing hopping: hop", rstate, rstate')>>
                                  ELSE <<>>)]_vars

\* a trivial crossing was flagged with the active state as its target: l_hop
\* is set, nothing is logged and the forces are asked for again
C35_FlaggedOnActiveState ==
    /\ pc = "end"
    /\ variant = "bomd"
    /\ l_trivial /\ trivial_state = rstate_old /\ rstate = rstate_old
    /\ l_hop
    /\ event = <<>>
    /\ LastCall = "get_data(calc_force_only=True)"

====
